---- MODULE Spec2Model ----
(***************************************************************************)
(* State-machine model of the two scripts of bg-fus:                       *)
(*   src/src/bg_fus_interactive.py    ("fus" variant: A1 attenuated)       *)
(*   src/src/bg_gpi_supression_demo.py ("gpi" variant: scaled BG output)   *)
(*                                                                         *)
(* Numbers.  Times are integers counted in ticks; one simulator step is Dt *)
(* ticks (the simulator is built without dt, so dt is its default and T    *)
(* need not be a multiple of it).  Factors in [0,1] (kappa, fus_depth,     *)
(* gpi_scale_base) are fixed point with denominator Den, so 1.0 is Den and *)
(* 1.0 - kappa is Den - kappa.  A product of two factors has denominator   *)
(* Den*Den.  Drives and signals are integers in their own unit.            *)
(*                                                                         *)
(* The neuron populations (BasalGanglia, Thalamus, EnsembleArray) and the  *)
(* synaptic low-pass filters are library code.  They are represented by    *)
(* deterministic stand-ins that keep only what the scripts fix: which      *)
(* values an output depends on (the seed drawn at build time, the          *)
(* simulator seed and the signal fed in).                                  *)
(***************************************************************************)
EXTENDS Integers, Sequences, FiniteSets, TLC

\* ------------------------------------------------------------------ bounds
\* Fixed-point denominator of the factors in [0,1].
Den == 2
\* Ticks per simulator step (the time resolution below one step).
Dt == 2
\* Largest run duration T, in ticks.
MaxT == 7
\* Largest time at which a scale function is queried directly.
MaxEvalTime == 9
\* Number of states of the process-wide generator np.random.
RngMod == 5
\* Number of distinct levels of a population output.
SigMod == 3

Runs == {1, 2}
Seeds == {1, 2}
EvalTimes == 3..MaxEvalTime
NoCfg == [variant |-> "none"]

\* ------------------------------------------------------- pure helper maths
\* int(np.round(T / dt)): nearest integer, ties to the even one (T >= 0).
RoundHalfEven(a, b) ==
    LET q == a \div b
        r == a % b
    IN  IF 2 * r < b THEN q
        ELSE IF 2 * r > b THEN q + 1
        ELSE IF q % 2 = 0 THEN q ELSE q + 1

\* np.random.seed(s): the generator state is a function of s alone.
SeedState(s) == s % RngMod
\* rng.randint(maxint): the value drawn is a function of the state ...
Draw(state) == state
\* ... and drawing advances the state.
Advance(state) == (3 * state + 1) % RngMod

VARIABLES
    npRandom,    \* state of the process-wide generator np.random
    pc,          \* pc[r]: "Uninitialized", "Seeded", "Running", "Completed"
    cfg,         \* cfg[r]: the parameter bundle run r was called with
    netSeed,     \* netSeed[r]: seed the build drew for the network
    n_steps,     \* sim.n_steps of run r
    p_ctx,       \* sim.data[p_ctx]: cortex output per step
    scaler_out,  \* BG-side signal delivered each step (bg/scaler output)
    p_scl,       \* sim.data[p_scl]: gpi_scale(t) per step (gpi variant)
    p_gpis,      \* output of the scaled_gpi node per step (gpi variant)
    p_th,        \* sim.data[p_th]: thalamus output per step
    trange,      \* t = sim.trange(), read once the run returned
    closure,     \* the scale function under direct evaluation
    seen,        \* seen[t]: <<v>> once an evaluation at t returned v, else <<>>
    reeval       \* some time was evaluated again after its first evaluation

vars == <<npRandom, pc, cfg, netSeed, n_steps, p_ctx, scaler_out, p_scl,
          p_gpis, p_th, trange, closure, seen, reeval>>
runVars == <<npRandom, pc, cfg, netSeed, n_steps, p_ctx, scaler_out, p_scl,
             p_gpis, p_th, trange>>
evalVars == <<closure, seen, reeval>>

\* --------------------------------------------------- modulation generators
\* A scale function whose pulse is spent by its first evaluation inside the
\* window (a generator that keeps state between calls).
scale_fn_oneshot(kappa, fus_start, fus_dur, t) ==
    IF fus_start <= t /\ t <= fus_start + fus_dur
       /\ \A u \in EvalTimes :
             seen[u] = <<>> \/ ~(fus_start <= u /\ u <= fus_start + fus_dur)
    THEN Den - kappa ELSE Den

\* A scale function whose window is open at its end.
scale_fn_halfopen(kappa, fus_start, fus_dur, t) ==
    IF fus_start <= t /\ t < fus_start + fus_dur THEN Den - kappa ELSE Den

\* make_fus_scale(kappa, fus_start, fus_dur)(t)
scale_fn(kappa, fus_start, fus_dur, t) ==
    IF fus_start <= t /\ t <= fus_start + fus_dur THEN Den - kappa ELSE Den

\* gpi_scale_fn(t), reading the module's parameters; denominator Den*Den.
gpi_scale_fn(gpi_scale_base, fus_depth, fus_start, fus_dur, t) ==
    LET in_pulse == fus_start <= t /\ t <= fus_start + fus_dur
    IN  gpi_scale_base * (IF in_pulse THEN Den - fus_depth ELSE Den)

\* ------------------------------------------------------------- the network
\* Cortex node that attenuates both channels.
CortexBoth(c, t) ==
    IF c.variant = "fus"
    THEN <<c.A1 * scale_fn(c.kappa, c.fus_start, c.fus_dur, t),
           c.A2 * scale_fn(c.kappa, c.fus_start, c.fus_dur, t)>>
    ELSE <<c.A1 * Den, c.A2 * Den>>

\* cortex = nengo.Node(lambda t: [A1 * fus_scale(t), A2])   (fus variant)
\* cortex = nengo.Node(lambda t: [A1, A2])                  (gpi variant)
\* Both channels are in fixed point with denominator Den.
Cortex(c, t) ==
    IF c.variant = "fus"
    THEN <<c.A1 * scale_fn(c.kappa, c.fus_start, c.fus_dur, t), c.A2 * Den>>
    ELSE <<c.A1 * Den, c.A2 * Den>>

\* Stand-in for what the populations between cortex and the BG-side output
\* deliver: a function of the build seed, the simulator seed and the drive.
ScalerOut(ns, sd, ctx) ==
    <<(ns + sd + ctx[1]) % SigMod, (ns + 2 * sd + ctx[2]) % SigMod>>

\* Input of the scaled_gpi node with live (transform 1.0) placeholders.
ScaledGpiInLive(x, g) == <<x[1] + g, x[2] + g>>

\* Input of the scaled_gpi node: the sum of its three incoming connections,
\* scaler.output on both dimensions and gpi_scale with transform=0.0 on each.
ScaledGpiIn(x, g) == <<x[1] + 0 * g, x[2] + 0 * g>>

\* scaled_gpi_func(t, x), with s = gpi_scale_fn(t)
scaled_gpi_func(s, x) == <<s * x[1], s * x[2]>>

\* Signal that reaches th.input at time t.
ThalamusIn(c, x, t) ==
    IF c.variant = "gpi"
    THEN scaled_gpi_func(
             gpi_scale_fn(c.gpi_scale_base, c.fus_depth, c.fus_start, c.fus_dur, t),
             ScaledGpiIn(x, gpi_scale_fn(c.gpi_scale_base, c.fus_depth,
                                         c.fus_start, c.fus_dur, t)))
    ELSE x

\* Stand-in for the thalamus populations: the output is determined by the
\* build seed, the simulator seed and the inhibitory input.
ThalamusOut(ns, sd, inh) == <<ns, sd, inh>>

\* A run of ceil(T/dt) steps.
StepsForCeil(T) == (T + Dt - 1) \div Dt

\* sim.run(T): steps = int(np.round(float(T) / dt))
StepsFor(T) == RoundHalfEven(T, Dt)

\* A time grid that starts at 0.
TimeGridFromZero(n) == [k \in 1..n |-> (k - 1) * Dt]

\* sim.trange(): dt * arange(1, n_steps + 1)
TimeGrid(n) == [k \in 1..n |-> k * Dt]

\* ------------------------------------------------------- parameter bundles
AttVals == -1..(Den + 1)
DurVals == {-1, 0, 2}
StartVals == {2, 3}
BaseVals == {Den - 1, Den}

\* Bundles of run_and_plot(A1, A2, kappa, fus_start, fus_dur, T, seed).
FusCfgs ==
    [variant : {"fus"}, A1 : {2, 3}, A2 : {2}, kappa : AttVals,
     fus_start : StartVals, fus_dur : DurVals, T : 0..MaxT, seed : Seeds,
     gpi_scale_base : {Den}, fus_depth : {0}]

\* Values of the tunable parameters of the suppression demo.
GpiCfgs ==
    [variant : {"gpi"}, A1 : {3}, A2 : {2}, kappa : {0},
     fus_start : StartVals, fus_dur : DurVals, T : 0..MaxT, seed : Seeds,
     gpi_scale_base : BaseVals, fus_depth : AttVals]

Cfgs == FusCfgs \cup GpiCfgs

\* Bundles of a sweep that calls run_and_plot more than once in a process.
SweepCfgs ==
    [variant : {"fus"}, A1 : {3}, A2 : {2}, kappa : {1},
     fus_start : {2}, fus_dur : {2}, T : {2, 4, 5}, seed : Seeds,
     gpi_scale_base : {Den}, fus_depth : {0}]

\* Scale functions that can be put under direct evaluation.
Closures ==
    [fn : {"fus", "gpi"}, att : AttVals, fus_start : {4, 5},
     fus_dur : {-1, 0, 3}, gpi_scale_base : {Den}]
NoClosure == [fn |-> "none"]

\* ------------------------------------------------------------------- Init
InitRuns ==
    /\ npRandom \in 0..(RngMod - 1)
    /\ pc = [r \in Runs |-> "Uninitialized"]
    /\ cfg = [r \in Runs |-> NoCfg]
    /\ netSeed = [r \in Runs |-> 0]
    /\ n_steps = [r \in Runs |-> 0]
    /\ p_ctx = [r \in Runs |-> <<>>]
    /\ scaler_out = [r \in Runs |-> <<>>]
    /\ p_scl = [r \in Runs |-> <<>>]
    /\ p_gpis = [r \in Runs |-> <<>>]
    /\ p_th = [r \in Runs |-> <<>>]
    /\ trange = [r \in Runs |-> <<>>]

Init ==
    /\ InitRuns
    /\ closure = NoClosure
    /\ seen = [t \in EvalTimes |-> <<>>]
    /\ reeval = FALSE

InitEval ==
    /\ InitRuns
    /\ npRandom = 0
    /\ closure \in Closures
    /\ seen = [t \in EvalTimes |-> <<>>]
    /\ reeval = FALSE

\* ---------------------------------------------------------------- actions
\* run_and_plot is entered with bundle c and seeds the process-wide
\* generator (the demo does the same at module level).  Nothing is checked.
Call(r, c) ==
    /\ pc[r] = "Uninitialized"
    /\ pc' = [pc EXCEPT ![r] = "Seeded"]
    /\ cfg' = [cfg EXCEPT ![r] = c]
    /\ npRandom' = SeedState(c.seed)
    /\ UNCHANGED <<netSeed, n_steps, p_ctx, scaler_out, p_scl, p_gpis, p_th,
                   trange, evalVars>>

\* The network is constructed and nengo.Simulator(net, seed=seed) builds
\* it: the network carries no seed of its own, so the build draws one from
\* the process-wide generator.  sim.run(T) is entered.
Build(r) ==
    /\ pc[r] = "Seeded"
    /\ pc' = [pc EXCEPT ![r] = "Running"]
    /\ netSeed' = [netSeed EXCEPT ![r] = Draw(npRandom)]
    /\ npRandom' = Advance(npRandom)
    /\ UNCHANGED <<cfg, n_steps, p_ctx, scaler_out, p_scl, p_gpis, p_th,
                   trange, evalVars>>

\* One simulator step of sim.run(T): time advances to n*dt, the nodes are
\* evaluated at that time and every probe appends one sample.
Step(r) ==
    /\ pc[r] = "Running"
    /\ n_steps[r] < StepsFor(cfg[r].T)
    /\ LET c == cfg[r]
           n == n_steps[r] + 1
           t == n * Dt
           ctx == Cortex(c, t)
           x == ScalerOut(netSeed[r], c.seed, ctx)
           thin == ThalamusIn(c, x, t)
       IN  /\ n_steps' = [n_steps EXCEPT ![r] = n]
           /\ p_ctx' = [p_ctx EXCEPT ![r] = Append(@, ctx)]
           /\ scaler_out' = [scaler_out EXCEPT ![r] = Append(@, x)]
           /\ p_th' = [p_th EXCEPT ![r] =
                          Append(@, ThalamusOut(netSeed[r], c.seed, thin))]
           /\ IF c.variant = "gpi"
              THEN /\ p_scl' = [p_scl EXCEPT ![r] =
                        Append(@, gpi_scale_fn(c.gpi_scale_base, c.fus_depth,
                                               c.fus_start, c.fus_dur, t))]
                   /\ p_gpis' = [p_gpis EXCEPT ![r] = Append(@, thin)]
              ELSE UNCHANGED <<p_scl, p_gpis>>
    /\ UNCHANGED <<npRandom, pc, cfg, netSeed, trange, evalVars>>

\* sim.run(T) returns after its last step, the simulator is closed and the
\* script reads t = sim.trange().
Finish(r) ==
    /\ pc[r] = "Running"
    /\ n_steps[r] = StepsFor(cfg[r].T)
    /\ pc' = [pc EXCEPT ![r] = "Completed"]
    /\ trange' = [trange EXCEPT ![r] = TimeGrid(n_steps[r])]
    /\ UNCHANGED <<npRandom, cfg, netSeed, n_steps, p_ctx, scaler_out, p_scl,
                   p_gpis, p_th, evalVars>>

\* A caller evaluates the closure returned by make_fus_scale at time t.
EvalFus(t) ==
    /\ closure.fn = "fus"
    /\ seen' = [seen EXCEPT ![t] =
                   <<scale_fn(closure.att, closure.fus_start, closure.fus_dur, t)>>]
    /\ reeval' = (reeval \/ seen[t] # <<>>)
    /\ UNCHANGED <<closure, runVars>>

\* A caller evaluates gpi_scale_fn at time t.
EvalGpi(t) ==
    /\ closure.fn = "gpi"
    /\ seen' = [seen EXCEPT ![t] =
                   <<gpi_scale_fn(closure.gpi_scale_base, closure.att,
                                  closure.fus_start, closure.fus_dur, t)>>]
    /\ reeval' = (reeval \/ seen[t] # <<>>)
    /\ UNCHANGED <<closure, runVars>>

\* --------------------------------------------------------- specifications
\* No other run is inside run_and_plot.
OthersIdle(r) ==
    \A q \in Runs \ {r} : pc[q] \in {"Uninitialized", "Completed"}

\* One script execution: a single run.
Next ==
    \/ \E c \in Cfgs : Call(1, c)
    \/ Build(1)
    \/ Step(1)
    \/ Finish(1)

Spec == Init /\ [][Next]_vars

\* The script is straight-line code: a started run proceeds to its end.
FairSpec == Spec /\ WF_vars(Build(1)) /\ WF_vars(Step(1)) /\ WF_vars(Finish(1))

\* A sweep: run_and_plot called for two bundles, one call after the other.
NextSeq ==
    \E r \in Runs :
        \/ OthersIdle(r) /\ \E c \in SweepCfgs : Call(r, c)
        \/ OthersIdle(r) /\ Build(r)
        \/ OthersIdle(r) /\ Step(r)
        \/ OthersIdle(r) /\ Finish(r)

SpecSeq == Init /\ [][NextSeq]_vars

\* Two calls of run_and_plot in one process, interleaved at will.
NextConc ==
    \E r \in Runs :
        \/ \E c \in SweepCfgs : Call(r, c)
        \/ Build(r)
        \/ Step(r)
        \/ Finish(r)

SpecConc == Init /\ [][NextConc]_vars

\* A scale function queried at any times, in any order.
NextEval ==
    \E t \in EvalTimes : EvalFus(t) \/ EvalGpi(t)

SpecEval == InitEval /\ [][NextEval]_vars

\* ------------------------------------------------------- claim vocabulary
\* t lies in the closed window [start, start + dur].
InWindow(start, dur, t) == start <= t /\ t <= start + dur

\* n is the integer nearest to T/Dt, the even one of two equally near.
NearestStepCount(n, T) ==
    LET d == IF n * Dt >= T THEN n * Dt - T ELSE T - n * Dt
    IN  /\ 2 * d <= Dt
        /\ (2 * d = Dt => n % 2 = 0)

\* The bundle is one the specification calls valid.
ValidBundle(c) ==
    /\ c.T >= 0
    /\ c.fus_dur >= 0
    /\ c.kappa \in 0..Den
    /\ c.fus_depth \in 0..Den

\* The thalamus series run_and_plot(c) records when nothing else runs in
\* the process between its seeding and its build.
RunAlone(c) ==
    LET ns == Draw(SeedState(c.seed))
    IN  [k \in 1..StepsFor(c.T) |->
            ThalamusOut(ns, c.seed,
                ThalamusIn(c, ScalerOut(ns, c.seed, Cortex(c, k * Dt)), k * Dt))]

\* ---------------------------------------------------------------- claims
\* C1: the scale function returned by make_fus_scale yields exactly
\* 1 - kappa at every t with fus_start <= t <= fus_start + fus_dur and
\* exactly 1 at every other t; both ends of the window are attenuated (for
\* fus_start = 5, fus_dur = 3: 1 at 4 and 9, 1 - kappa at 5, 6 and 8).
C1_WindowClosed ==
    closure.fn = "fus" =>
        /\ \A t \in EvalTimes :
              seen[t] # <<>> =>
                 /\ InWindow(closure.fus_start, closure.fus_dur, t)
                       => seen[t][1] = Den - closure.att
                 /\ (t < closure.fus_start
                        \/ t > closure.fus_start + closure.fus_dur)
                       => seen[t][1] = Den
        /\ (closure.fus_start = 5 /\ closure.fus_dur = 3) =>
              /\ \A t \in {4, 9} : seen[t] \in {<<>>, <<Den>>}
              /\ \A t \in {5, 6, 8} : seen[t] \in {<<>>, <<Den - closure.att>>}

C1_Witness ==
    /\ closure.fn = "fus" /\ closure.att = 1
    /\ closure.fus_start = 5 /\ closure.fus_dur = 3
    /\ seen[4] = <<Den>> /\ seen[9] = <<Den>>
    /\ seen[5] = <<Den - 1>> /\ seen[8] = <<Den - 1>>

\* C2 as stated: after a run every probe series and the time grid have
\* floor(T/dt) + 1 entries, the first timestamp is 0 and the timestamps
\* increase strictly.
C2_Original ==
    \A r \in Runs :
        pc[r] = "Completed" =>
            LET N == (cfg[r].T \div Dt) + 1
            IN  /\ Len(trange[r]) = N
                /\ Len(p_ctx[r]) = N
                /\ Len(p_th[r]) = N
                /\ trange[r][1] = 0
                /\ \A k \in 1..(N - 1) : trange[r][k] < trange[r][k + 1]

\* C2 amended: after a run of duration T >= 0 every probe series and the
\* time grid have round(T/dt) entries (nearest integer, ties to even), the
\* first timestamp, when there is one, is dt, and the timestamps increase
\* strictly.
C2_SeriesLength ==
    \A r \in Runs :
        pc[r] = "Completed" =>
            LET N == Len(trange[r])
            IN  /\ NearestStepCount(N, cfg[r].T)
                /\ Len(p_ctx[r]) = N
                /\ Len(p_th[r]) = N
                /\ Len(scaler_out[r]) = N
                /\ cfg[r].variant = "gpi" =>
                      Len(p_scl[r]) = N /\ Len(p_gpis[r]) = N
                /\ N > 0 => trange[r][1] = Dt
                /\ \A k \in 1..(N - 1) : trange[r][k] < trange[r][k + 1]

C2_Witness ==
    \E r \in Runs :
        /\ pc[r] = "Completed"
        /\ cfg[r].T % Dt # 0
        /\ Len(trange[r]) >= 2
        /\ Len(p_th[r]) = Len(trange[r])

SameBundleSameSeries ==
    \A r1, r2 \in Runs :
        (pc[r1] = "Completed" /\ pc[r2] = "Completed" /\ cfg[r1] = cfg[r2]) =>
            /\ p_ctx[r1] = p_ctx[r2]
            /\ scaler_out[r1] = scaler_out[r2]
            /\ p_th[r1] = p_th[r2]
            /\ trange[r1] = trange[r2]

\* C4 as stated: two runs with the same parameters and seed record the same
\* series whatever ran before or between them, and the build of a run takes
\* its stochastic terms from a generator the run owns, never from the
\* process-wide one.
C4_Original ==
    /\ []SameBundleSameSeries
    /\ [][(\E r \in Runs : pc[r] = "Seeded" /\ pc'[r] = "Running")
             => npRandom' = npRandom]_vars

\* C6 as stated: for a bundle with negative T or fus_dur, or with kappa or
\* fus_depth outside [0,1], no step executes, no probe value is recorded and
\* the run does not complete.
C6_Original ==
    \A r \in Runs :
        (cfg[r] # NoCfg /\ ~ValidBundle(cfg[r])) =>
            /\ n_steps[r] = 0
            /\ p_ctx[r] = <<>>
            /\ p_th[r] = <<>>
            /\ pc[r] # "Completed"

C8_Original ==
    \A r \in Runs :
        pc[r] = "Completed" => p_th[r] = RunAlone(cfg[r])

C10_CortexFrame ==
    \A r \in Runs :
        \A k \in 1..Len(p_ctx[r]) :
            LET c == cfg[r]
                inside == InWindow(c.fus_start, c.fus_dur, k * Dt)
            IN  /\ p_ctx[r][k][2] = c.A2 * Den
                /\ c.variant = "fus" =>
                      p_ctx[r][k][1] =
                         (IF inside THEN c.A1 * (Den - c.kappa) ELSE c.A1 * Den)
                /\ c.variant = "gpi" => p_ctx[r][k][1] = c.A1 * Den

C10_Witness ==
    \E r \in Runs :
        /\ cfg[r].variant = "fus"
        /\ cfg[r].kappa = 1
        /\ \E j, k \in 1..Len(p_ctx[r]) :
              /\ InWindow(cfg[r].fus_start, cfg[r].fus_dur, k * Dt)
              /\ ~InWindow(cfg[r].fus_start, cfg[r].fus_dur, j * Dt)
              /\ p_ctx[r][k][1] < p_ctx[r][j][1]
              /\ p_ctx[r][k][2] = p_ctx[r][j][2]

====
